---- MODULE Spec2Model ----
(***************************************************************************)
(* Model of src/omenhz.py: the power-state reactive control loop of the    *)
(* Omen Hz Controller.  Two threads of control exist in the program: the   *)
(* monitor thread (HzApp.battery_monitor) and the Tk main loop, on which   *)
(* every user handler runs (buttons directly, tray items through           *)
(* self.after).  The operating system (powercfg, display driver, power     *)
(* status) is the environment.                                             *)
(***************************************************************************)
EXTENDS Integers, Sequences, FiniteSets, TLC

(* ---------------------------------------------------------------- bounds *)

\* Number of power schemes the OS knows; their guids are 1..NumSchemes.
NumSchemes == 2

\* Number of load_config / save_config rounds made on one document.
RoundTrips == 2

\* Longest mode table a display driver enumerates.
MaxModes == 3

(* ------------------------------------------------------------ data model *)

\* "no guid": None or "" in the source, both falsy in `if target_plan`.
NoGuid == 0

\* Guids powercfg knows.
OsSchemes == 1..NumSchemes

\* A guid kept in the configuration that powercfg no longer knows.
StaleGuid == NumSchemes + 1

\* A guid string read from the document that holds an unpaired surrogate
\* ("\ud83d"): json.load accepts it, the utf-8 encoder does not.
LoneSurrogate == NumSchemes + 2

\* A guid entry of the document that is a JSON number, not a string: it is
\* truthy and has no .lower().
NumberGuid == NumSchemes + 3

\* "no target Hz": None in the source.
NoHz == 0

\* A target Hz entry of the document that int() rejects (a word).
BadHz == 0 - 1

\* Optional[bool] of is_plugged_in, written as strings.
PlugStates == {"True", "False", "None"}

Threads == {"mon", "ui"}

Other(t) == IF t = "mon" THEN "ui" ELSE "mon"

Slot(ac) == IF ac THEN "ac" ELSE "dc"

Settings ==
  {"PERFEPP", "PERFBOOSTMODE", "PROCTHROTTLEMIN", "PROCTHROTTLEMAX",
   "CPMINCORES", "SYSTEMCOOLINGPOLICY"}

Max2(a, b) == IF a >= b THEN a ELSE b

Min2(a, b) == IF a <= b THEN a ELSE b

CpuPolicy(e, b, mn, mx, cp, cl) ==
  [epp |-> e, boost_mode |-> b, cpu_min |-> mn, cpu_max |-> mx,
   core_parking_min |-> cp, cooling_policy |-> cl]

default_cpu_ac == CpuPolicy(0, 2, 5, 100, 100, 1)

default_cpu_bat == CpuPolicy(90, 0, 5, 70, 20, 0)

\* A policy as load_config accepts it from a hand-edited document: it is
\* converted with int() only, never clamped.
StalePolicy == CpuPolicy(120, 3, 80, 50, 0 - 5, 2)

\* Values every scheme holds before the program writes any.
OsFactoryValues ==
  [s \in Settings |->
     CASE s = "PERFEPP" -> 50
       [] s = "PERFBOOSTMODE" -> 1
       [] s = "PROCTHROTTLEMIN" -> 5
       [] s = "PROCTHROTTLEMAX" -> 100
       [] s = "CPMINCORES" -> 50
       [] OTHER -> 1]

\* Refresh rates the panel really has at the current resolution.
PanelHz == {60, 144}

\* A display mode as EnumDisplaySettings reports it (DEVMODE).
Mode(w, h, bpp, f) == [w |-> w, h |-> h, bpp |-> bpp, f |-> f]

\* The mode table the driver of that panel enumerates, and the mode in use
\* (its frequency is os.hz).
PanelModes ==
  <<Mode(1280, 720, 32, 75), Mode(1920, 1080, 32, 144), Mode(1920, 1080, 32, 60),
    Mode(1920, 1080, 32, 144)>>

PanelMode == Mode(1920, 1080, 32, 0)

\* Hardware / firmware profiles: OEM-locked schemes (activation is silently
\* rejected), settings the firmware table lacks (their write fails),
\* whether the driver enumerates display modes at all, and what the
\* configuration store does with a write once the program runs: "ok", "denied"
\* (open() raises, the file stays) or "full" (the file is truncated by
\* open(..., "w") and json.dump raises); the display's mode table and
\* current mode.
Hardware(l, nk, en, st) ==
  [locked |-> l, noKnob |-> nk, enumOk |-> en, store |-> st,
   modes |-> PanelModes, cur |-> PanelMode]

HwPlain == Hardware({}, {}, TRUE, "ok")

HwLocked == Hardware({1}, {"PERFBOOSTMODE"}, TRUE, "ok")

HwBare == Hardware({}, {"PROCTHROTTLEMAX"}, FALSE, "ok")

VARIABLES
  cfg,              \* self.cfg: the AppConfig
  switch,           \* the three CTkSwitch widgets
  disk,             \* the persisted document (config.json)
  power,            \* what GetSystemPowerStatus answers right now
  hw,               \* hardware profile, fixed during a run
  os,               \* active scheme, scheme values, display frequency
  last_plug_state,  \* self._last_plug_state
  apply_lock,       \* self._apply_lock is held
  pc,               \* position of each thread
  op,               \* which handler a thread runs
  plugged,          \* argument of the running _apply_targets
  target,           \* its locals target_hz and target_plan
  log,              \* steps of the running _apply_targets and their OS calls
  race,             \* history: did two applies overlap, undisturbed
  pending           \* history: transition recorded, apply not yet done

vars ==
  <<cfg, switch, disk, power, hw, os, last_plug_state, apply_lock, pc, op,
    plugged, target, log, race, pending>>

(* ------------------------------------------------------- operating system *)

Call(o, g, sl, st, v, okay) ==
  [op |-> o, guid |-> g, slot |-> sl, setting |-> st, value |-> v, ok |-> okay]

\* is_plugged_in(): the answer of the power status API.
is_plugged_in == power

RECURSIVE SortedSeq(_)
SortedSeq(S) ==
  IF S = {} THEN <<>>
  ELSE LET m == CHOOSE x \in S : \A y \in S : x <= y
       IN <<m>> \o SortedSeq(S \ {m})

SeqRange(s) == {s[i] : i \in DOMAIN s}

\* The while loop of list_supported_hz_for_current_mode from mode i on: a
\* frequency in 20..500 at the current width and height goes to the loose
\* set, and to the strict set too when the colour depth is the current one.
RECURSIVE enum_display_settings(_, _, _, _)
enum_display_settings(modes, i, cur, acc) ==
  IF i > Len(modes) THEN acc
  ELSE LET m == modes[i]
           fits == 20 <= m.f /\ m.f <= 500 /\ m.w = cur.w /\ m.h = cur.h
       IN enum_display_settings(modes, i + 1, cur,
            [loose |-> IF fits THEN acc.loose \cup {m.f} ELSE acc.loose,
             strict |-> IF fits /\ m.bpp = cur.bpp
                        THEN acc.strict \cup {m.f} ELSE acc.strict])

\* Mutant: the resolution-only set is returned whatever the strict set holds.
supported_hz_loose(modes, cur) ==
  SortedSeq(enum_display_settings(modes, 1, cur, [loose |-> {}, strict |-> {}]).loose)

\* Line 164: sorted(freqs_strict) if freqs_strict else sorted(freqs_loose).
supported_hz(modes, cur) ==
  LET a == enum_display_settings(modes, 1, cur, [loose |-> {}, strict |-> {}])
  IN IF a.strict # {} THEN SortedSeq(a.strict) ELSE SortedSeq(a.loose)

\* list_supported_hz_for_current_mode(): [] when the device or the current
\* mode cannot be read, else the enumerated rates.
list_supported_hz_for_current_mode ==
  IF hw.enumOk THEN supported_hz(hw.modes, hw.cur) ELSE <<>>

\* powercfg /setactive <guid>: exit status 0 iff the scheme exists; an
\* OEM-locked scheme answers 0 and stays inactive.
run_setactive(o, guid) ==
  LET exists == guid \in OsSchemes
      takes == exists /\ guid \notin hw.locked
  IN [ok |-> exists,
      os |-> IF takes THEN [o EXCEPT !.active = guid] ELSE o,
      call |-> Call("setactive", guid, "-", "-", 0, exists)]

get_active_power_scheme(o) == o.active

\* Mutant: the exit status of powercfg is trusted, the active scheme is not
\* read back.
set_power_scheme_unverified(o, guid) ==
  IF guid = NoGuid
  THEN [ok |-> FALSE, os |-> o, calls |-> <<>>, msg |-> "GUID bos"]
  ELSE LET r == run_setactive(o, guid)
       IN IF ~r.ok
          THEN [ok |-> FALSE, os |-> r.os, calls |-> <<r.call>>,
                msg |-> "setactive basarisiz"]
          ELSE [ok |-> TRUE, os |-> r.os, calls |-> <<r.call>>, msg |-> "OK"]

\* set_power_scheme_by_guid: one /setactive, then the active scheme is read
\* back and compared with the guid asked for.
set_power_scheme_by_guid(o, guid) ==
  IF guid = NoGuid
  THEN [ok |-> FALSE, os |-> o, calls |-> <<>>, msg |-> "GUID bos"]
  ELSE LET r == run_setactive(o, guid)
       IN IF ~r.ok
          THEN [ok |-> FALSE, os |-> r.os, calls |-> <<r.call>>,
                msg |-> "setactive basarisiz"]
          ELSE IF get_active_power_scheme(r.os) = guid
          THEN [ok |-> TRUE, os |-> r.os, calls |-> <<r.call>>, msg |-> "OK"]
          ELSE [ok |-> FALSE, os |-> r.os, calls |-> <<r.call>>,
                msg |-> "dogrulanamadi"]

\* Mutant: the value is stored for both power sources.
set_value_index_both(o, ac, scheme, setting, value) ==
  LET good == scheme \in OsSchemes /\ setting \notin hw.noKnob
  IN [ok |-> good,
      os |-> IF good
             THEN [o EXCEPT !.vals[scheme] =
                     [sl \in {"ac", "dc"} |-> [@[sl] EXCEPT ![setting] = value]]]
             ELSE o,
      call |-> Call("setvalue", scheme, Slot(ac), setting, value, good)]

\* _set_value_index: powercfg /setacvalueindex or /setdcvalueindex.
set_value_index(o, ac, scheme, setting, value) ==
  LET good == scheme \in OsSchemes /\ setting \notin hw.noKnob
  IN [ok |-> good,
      os |-> IF good
             THEN [o EXCEPT !.vals[scheme][Slot(ac)][setting] = value]
             ELSE o,
      call |-> Call("setvalue", scheme, Slot(ac), setting, value, good)]

\* Mutant: cpu_max is raised to fit cpu_min.
clamp_policy_raise_max(pol) ==
  LET mx == Max2(1, Min2(100, pol.cpu_max))
      mn0 == Max2(0, Min2(100, pol.cpu_min))
  IN [epp |-> Max2(0, Min2(100, pol.epp)),
      boost_mode |-> Max2(0, Min2(2, pol.boost_mode)),
      cpu_min |-> mn0,
      cpu_max |-> IF mn0 > mx THEN mn0 ELSE mx,
      core_parking_min |-> Max2(0, Min2(100, pol.core_parking_min)),
      cooling_policy |-> IF pol.cooling_policy = 1 THEN 1 ELSE 0]

\* The clamp block of apply_cpu_policy_to_scheme.
clamp_policy(pol) ==
  LET mx == Max2(1, Min2(100, pol.cpu_max))
      mn0 == Max2(0, Min2(100, pol.cpu_min))
  IN [epp |-> Max2(0, Min2(100, pol.epp)),
      boost_mode |-> Max2(0, Min2(2, pol.boost_mode)),
      cpu_min |-> IF mn0 > mx THEN mx ELSE mn0,
      cpu_max |-> mx,
      core_parking_min |-> Max2(0, Min2(100, pol.core_parking_min)),
      cooling_policy |-> IF pol.cooling_policy = 1 THEN 1 ELSE 0]

\* The value of e, computed once.
Val(e) == CHOOSE x \in {e} : TRUE

\* Mutant: a failed mandatory write is ignored like a best-effort one.
CpuWrite_keep_going(st0, ac, guid, setting, value, mandatory) ==
  Val(CHOOSE x \in
        { IF ~st.go THEN st
          ELSE LET r == set_value_index(st.os, ac, guid, setting, value)
               IN [os |-> r.os, calls |-> Append(st.calls, r.call),
                   go |-> TRUE] : st \in {st0} } : TRUE)

\* Mutant: any failed write ends the function, best-effort or not.
CpuWrite_abort_on_any(st0, ac, guid, setting, value, mandatory) ==
  Val(CHOOSE x \in
        { IF ~st.go THEN st
          ELSE LET r == set_value_index(st.os, ac, guid, setting, value)
               IN [os |-> r.os, calls |-> Append(st.calls, r.call),
                   go |-> r.ok] : st \in {st0} } : TRUE)

\* One field write inside apply_cpu_policy_to_scheme: skipped once a
\* mandatory field has failed (the function has returned).
CpuWrite(st0, ac, guid, setting, value, mandatory) ==
  Val(CHOOSE x \in
        { IF ~st.go THEN st
          ELSE LET r == set_value_index(st.os, ac, guid, setting, value)
               IN [os |-> r.os, calls |-> Append(st.calls, r.call),
                   go |-> r.ok \/ ~mandatory] : st \in {st0} } : TRUE)

\* The writes of apply_cpu_policy_to_scheme, in statement order, with the
\* clamped values c, then the re-activation.
cpu_writes(o, scheme_guid, ac, c) ==
  LET s0 == [os |-> o, calls |-> <<>>, go |-> TRUE]
      s1 == CpuWrite(s0, ac, scheme_guid, "PERFEPP", c.epp, TRUE)
      s2 == CpuWrite(s1, ac, scheme_guid, "PERFBOOSTMODE", c.boost_mode, FALSE)
      s3 == CpuWrite(s2, ac, scheme_guid, "PROCTHROTTLEMIN", c.cpu_min, TRUE)
      s4 == CpuWrite(s3, ac, scheme_guid, "PROCTHROTTLEMAX", c.cpu_max, TRUE)
      s5 == CpuWrite(s4, ac, scheme_guid, "CPMINCORES", c.core_parking_min, FALSE)
      s6 == CpuWrite(s5, ac, scheme_guid, "SYSTEMCOOLINGPOLICY", c.cooling_policy, FALSE)
  IN IF s6.go
     THEN LET a == run_setactive(s6.os, scheme_guid)
          IN [ok |-> TRUE, os |-> a.os, calls |-> Append(s6.calls, a.call),
              msg |-> "OK"]
     ELSE [ok |-> FALSE, os |-> s6.os, calls |-> s6.calls,
           msg |-> "setvalueindex basarisiz"]

\* Mutant: cpu_min is lowered to the max the scheme holds, not to the max
\* being written.
apply_cpu_policy_stored_max(o, scheme_guid, ac, pol) ==
  IF scheme_guid = NoGuid
  THEN [ok |-> FALSE, os |-> o, calls |-> <<>>, msg |-> "Plan GUID secili degil"]
  ELSE LET d == clamp_policy(pol)
           mn0 == Max2(0, Min2(100, pol.cpu_min))
           held == IF scheme_guid \in OsSchemes
                   THEN o.vals[scheme_guid][Slot(ac)]["PROCTHROTTLEMAX"]
                   ELSE d.cpu_max
       IN cpu_writes(o, scheme_guid, ac, [d EXCEPT !.cpu_min = Min2(mn0, held)])

\* Mutant: the guid is not looked at before powercfg is run.
apply_cpu_policy_unguarded(o, scheme_guid, ac, pol) ==
  cpu_writes(o, scheme_guid, ac, clamp_policy(pol))

\* apply_cpu_policy_to_scheme: nothing is run for an empty guid.
apply_cpu_policy_to_scheme(o, scheme_guid, ac, pol) ==
  IF scheme_guid = NoGuid
  THEN [ok |-> FALSE, os |-> o, calls |-> <<>>, msg |-> "Plan GUID secili degil"]
  ELSE cpu_writes(o, scheme_guid, ac, clamp_policy(pol))

\* The message set_hz returns: its wording, and the list it spells out.
HzMsg(wording, list) == [text |-> wording, supported |-> list]

\* win32api.ChangeDisplaySettings(cur, 0) with DisplayFrequency = hz.
ChangeDisplaySettings(o, hz) ==
  [os |-> IF hz \in PanelHz THEN [o EXCEPT !.hz = hz] ELSE o,
   calls |-> <<Call("sethz", NoGuid, "-", "-", hz, hz \in PanelHz)>>]

\* Mutant: the mode change is requested even when hz is the current rate.
set_hz_always_changes(o, hz) ==
  LET supported == list_supported_hz_for_current_mode
      d == ChangeDisplaySettings(o, hz)
  IN IF supported # <<>> /\ hz \notin SeqRange(supported)
     THEN [ok |-> FALSE, os |-> o, calls |-> <<>>,
           msg |-> HzMsg("desteklenmiyor", supported)]
     ELSE [ok |-> TRUE, os |-> d.os, calls |-> d.calls, msg |-> HzMsg("OK", <<>>)]

\* Mutant: the supported list is not consulted.
set_hz_unchecked(o, hz) ==
  LET d == ChangeDisplaySettings(o, hz)
  IN IF o.hz = hz
     THEN [ok |-> TRUE, os |-> o, calls |-> <<>>, msg |-> HzMsg("Zaten", <<>>)]
     ELSE [ok |-> TRUE, os |-> d.os, calls |-> d.calls, msg |-> HzMsg("OK", <<>>)]

\* set_hz: no call when already at hz or when hz is not in a non-empty
\* supported list; ChangeDisplaySettings' status is not looked at, and the
\* driver changes the rate only to one the panel has.
set_hz(o, hz) ==
  LET supported == list_supported_hz_for_current_mode
      d == ChangeDisplaySettings(o, hz)
  IN IF o.hz = hz
     THEN [ok |-> TRUE, os |-> o, calls |-> <<>>, msg |-> HzMsg("Zaten", <<>>)]
     ELSE IF supported # <<>> /\ hz \notin SeqRange(supported)
     THEN [ok |-> FALSE, os |-> o, calls |-> <<>>,
           msg |-> HzMsg("desteklenmiyor", supported)]
     ELSE [ok |-> TRUE, os |-> d.os, calls |-> d.calls, msg |-> HzMsg("OK", <<>>)]

(* ------------------------------------------------------- persisted config *)

\* JSON values of the persisted document, by kind.  n is the number held:
\* the integer, the integer a numeric string spells, ten times a float, 0/1
\* for false/true.  "bad" is any value int() rejects (a word, a list).
JVal(kind, num) == [k |-> kind, n |-> num]

JAbsent == JVal("absent", 0)

JNull == JVal("null", 0)

JBad == JVal("bad", 0)

JBool(b) == JVal("bool", IF b THEN 1 ELSE 0)

JInt(i) == JVal("int", i)

PolicyFields ==
  {"epp", "boost_mode", "cpu_min", "cpu_max", "core_parking_min", "cooling_policy"}

\* asdict() of a CpuPolicy as json.dump writes it.
JPolicy(pol) == [k |-> "dict", f |-> [x \in PolicyFields |-> JInt(pol[x])]]

\* A cpu_ac / cpu_bat entry that is no JSON object.
JNoPolicy(kind) == [k |-> kind, f |-> [x \in PolicyFields |-> JAbsent]]

\* No readable document: the file is missing, empty, truncated or holds no
\* JSON object.
NoDocument == [json |-> FALSE]

\* save_config: asdict(cfg) dumped as one JSON object.  The Hz and guid
\* fields are written as the values they hold (None as null).
save_config(c) ==
  [json |-> TRUE,
   auto_mode |-> JBool(c.auto_mode),
   set_power_plan |-> JBool(c.set_power_plan),
   set_cpu_policy |-> JBool(c.set_cpu_policy),
   ac_hz |-> c.ac_hz, battery_hz |-> c.battery_hz,
   ac_plan_guid |-> c.ac_plan_guid, battery_plan_guid |-> c.battery_plan_guid,
   cpu_ac |-> JPolicy(c.cpu_ac), cpu_bat |-> JPolicy(c.cpu_bat)]

\* Mutant: the handler does not save.
write_config_skipped(d, c) == d

\* json.dump streams into a file opened as utf-8: a string holding an
\* unpaired surrogate raises UnicodeEncodeError part way through.
encodable(c) ==
  /\ c.ac_plan_guid # LoneSurrogate
  /\ c.battery_plan_guid # LoneSurrogate

\* What a handler's save_config call leaves in the store holding document d:
\* the new document, the old one when open() is refused, and a truncated
\* (unreadable) one when the write stops part way.
write_config(d, c) ==
  CASE hw.store = "denied" -> d
    [] hw.store = "ok" /\ encodable(c) -> save_config(c)
    [] OTHER -> NoDocument

\* save_config returned; otherwise it raised.
write_ok == hw.store = "ok"

Config(auto, plan, cpu, achz, bathz, acg, batg, cac, cbat) ==
  [auto_mode |-> auto, set_power_plan |-> plan, set_cpu_policy |-> cpu,
   ac_hz |-> achz, battery_hz |-> bathz,
   ac_plan_guid |-> acg, battery_plan_guid |-> batg,
   cpu_ac |-> cac, cpu_bat |-> cbat]

\* AppConfig(): the dataclass defaults.
AppConfig == Config(TRUE, TRUE, TRUE, NoHz, NoHz, NoGuid, NoGuid,
                    default_cpu_ac, default_cpu_bat)

\* bool(v) of Python.
py_bool(v) ==
  CASE v.k = "null" -> FALSE
    [] v.k \in {"bool", "int", "float"} -> v.n # 0
    [] OTHER -> TRUE

\* int(v) raises (TypeError, ValueError).
int_raises(v) == v.k \in {"null", "bad"}

\* Integer division of Python's int() on a float held in tenths: towards 0.
Trunc10(t) == IF t >= 0 THEN t \div 10 ELSE 0 - ((0 - t) \div 10)

\* int(v) of Python where it does not raise.
py_int(v) == IF v.k = "float" THEN Trunc10(v.n) ELSE v.n

\* _dict_to_cpu_policy(raw.get(key, {}) or {}, fallback) as load_config calls
\* it on entry e: every field through int(), a missing field from the
\* fallback, the whole fallback when anything raises.  An entry that is no
\* object gives the fallback too: a falsy one is replaced by {}, on any
\* other d.get raises.
dict_to_cpu_policy(e, fallback) ==
  IF e.k # "dict" \/ \E x \in PolicyFields : int_raises(e.f[x])
  THEN fallback
  ELSE [x \in PolicyFields |->
          IF e.f[x].k = "absent" THEN fallback[x] ELSE py_int(e.f[x])]

\* raw.get(key, True) then bool().
toggle_of(v) == IF v.k = "absent" THEN TRUE ELSE py_bool(v)

\* load_config: AppConfig() when the file is missing, json.load raises or
\* the document is no object; the Hz and guid entries are taken as they are.
load_config(d) ==
  IF ~d.json THEN AppConfig
  ELSE Config(toggle_of(d.auto_mode), toggle_of(d.set_power_plan),
              toggle_of(d.set_cpu_policy),
              d.ac_hz, d.battery_hz, d.ac_plan_guid, d.battery_plan_guid,
              dict_to_cpu_policy(d.cpu_ac, default_cpu_ac),
              dict_to_cpu_policy(d.cpu_bat, default_cpu_bat))

\* The machines and persisted documents the runs start from.  Each gives the
\* plan guids and target rates HzApp.__init__ leaves in the configuration
\* (rates are defaulted there, never None; a plan guid is None when no
\* active scheme could be read), the AC policy, the hardware, and the OS
\* state found at startup.
Scenarios ==
  { [acg |-> 1, batg |-> 2, achz |-> 144, bathz |-> 60,
     cac |-> StalePolicy, hw |-> HwPlain, active |-> NumSchemes, hz |-> 60],
    [acg |-> StaleGuid, batg |-> 1, achz |-> 165, bathz |-> 60,
     cac |-> default_cpu_ac, hw |-> HwLocked, active |-> NumSchemes, hz |-> 144],
    [acg |-> NoGuid, batg |-> NumSchemes, achz |-> 165, bathz |-> 144,
     cac |-> default_cpu_ac, hw |-> HwBare, active |-> 1, hz |-> 60] }

ScenarioConfig(sc, a, p, c) ==
  Config(a, p, c, sc.achz, sc.bathz, sc.acg, sc.batg, sc.cac, default_cpu_bat)

ScenarioOs(sc) ==
  [active |-> sc.active, hz |-> sc.hz,
   vals |-> [g \in OsSchemes |-> [sl \in {"ac", "dc"} |-> OsFactoryValues]]]

(* ----------------------------------------------------- HzApp._apply_targets *)

\* bool(plug) / mode == "ac"
IsAc(p) == p = "True"

\* Lines 941-942: the locals read when _apply_targets starts.
read_targets(c, p) ==
  [hz |-> IF IsAc(p) THEN c.ac_hz ELSE c.battery_hz,
   plan |-> IF IsAc(p) THEN c.ac_plan_guid ELSE c.battery_plan_guid]

Res(okay) == IF okay THEN "ok" ELSE "fail"

Skipped(o) == [res |-> "off", os |-> o, calls |-> <<>>]

\* Mutant: the scheme is activated whatever the scheme toggle says.
SchemeStep_untoggled(o, c, plan) ==
  IF plan # NoGuid
  THEN LET r == set_power_scheme_by_guid(o, plan)
       IN [res |-> Res(r.ok), os |-> r.os, calls |-> r.calls]
  ELSE Skipped(o)

\* Lines 945-946.
SchemeStep(o, c, plan) ==
  IF c.set_power_plan /\ plan # NoGuid
  THEN LET r == set_power_scheme_by_guid(o, plan)
       IN [res |-> Res(r.ok), os |-> r.os, calls |-> r.calls]
  ELSE Skipped(o)

\* Lines 948-958; pol is a reference, its fields are read at the call.
CpuStep(o, c, plan, p) ==
  IF c.set_cpu_policy /\ plan # NoGuid
  THEN LET pol == IF IsAc(p) THEN c.cpu_ac ELSE c.cpu_bat
           r == apply_cpu_policy_to_scheme(o, plan, IsAc(p), pol)
       IN [res |-> Res(r.ok), os |-> r.os, calls |-> r.calls]
  ELSE Skipped(o)

\* Lines 960-961; int(target_hz) is evaluated in _apply_targets, outside
\* the try of set_hz, so a value it rejects raises out of _apply_targets.
HzStep(o, hz) ==
  IF hz = NoHz THEN Skipped(o)
  ELSE IF hz = BadHz THEN [res |-> "raise", os |-> o, calls |-> <<>>]
  ELSE LET r == set_hz(o, hz)
       IN [res |-> Res(r.ok), os |-> r.os, calls |-> r.calls]

\* Mutant: the display frequency is set before the CPU policy is written.
next_step_hz_first(step, res) ==
  CASE step = "scheme" -> "hz"
    [] step = "hz" -> "cpu"
    [] OTHER -> "exit"

\* Mutant: a failed step ends _apply_targets.
next_step_abort(step, res) ==
  IF res = "fail" THEN "exit"
  ELSE CASE step = "scheme" -> "cpu"
         [] step = "cpu" -> "hz"
         [] OTHER -> "exit"

\* The statement order of _apply_targets; no result is looked at.
next_step(step, res) ==
  CASE step = "scheme" -> "cpu"
    [] step = "cpu" -> "hz"
    [] OTHER -> "exit"

\* _apply_targets run alone, start to end, on OS state o.
apply_targets(o, c, p) ==
  LET tg == read_targets(c, p)
      o1 == SchemeStep(o, c, tg.plan).os
      o2 == CpuStep(o1, c, tg.plan, p).os
  IN HzStep(o2, tg.hz).os

(* ------------------------------------------------------------ the threads *)

Inside(t) == pc[t] \in {"scheme", "cpu", "hz", "exit"}

Home(t) == IF t = "mon" THEN "sleep" ELSE "idle"

NoTarget == [hz |-> NoHz, plan |-> NoGuid]

\* History only: an apply starts.
EnterRace(t) ==
  IF Inside(Other(t))
  THEN (IF race = "tainted" THEN "tainted" ELSE "overlap")
  ELSE "none"

\* History only: something an apply reads (or the power source) changes.
RaceAfterChange == IF \E t \in Threads : Inside(t) THEN "tainted" ELSE "none"

\* History only: once no apply runs, the next step forgets the overlap.
Quiesce == IF \E t \in Threads : Inside(t) THEN race ELSE "none"

\* The state when HzApp.__init__ has started the monitor thread.
Init ==
  /\ \E sc \in Scenarios :
       /\ \E a \in BOOLEAN, p \in BOOLEAN, c \in BOOLEAN :
            cfg = ScenarioConfig(sc, a, p, c)
       /\ hw = sc.hw
       /\ os = ScenarioOs(sc)
  /\ switch = [auto |-> cfg.auto_mode, power |-> cfg.set_power_plan,
               cpu |-> cfg.set_cpu_policy]
  /\ disk = save_config(cfg)
  /\ power \in PlugStates
  /\ last_plug_state = "None"
  /\ apply_lock = FALSE
  /\ pc = [t \in Threads |-> IF t = "mon" THEN "poll" ELSE "idle"]
  /\ op = [t \in Threads |-> "-"]
  /\ plugged = [t \in Threads |-> "None"]
  /\ target = [t \in Threads |-> NoTarget]
  /\ log = [t \in Threads |-> <<>>]
  /\ race = "none"
  /\ pending = "None"

\* Mutant: the reading is not compared with the last recorded state.
monitor_trigger_every_poll(auto, plug, last) == auto /\ plug # "None"

\* Lines 1007-1008: the transition test of the monitor.
monitor_trigger(auto, plug, last) == auto /\ plug # "None" /\ plug # last

\* One iteration of battery_monitor up to the call of
\* apply_for_current_power_state (or to the sleep when nothing is to do).
battery_monitor ==
  /\ pc["mon"] = "poll"
  /\ LET plug == is_plugged_in
     IN IF monitor_trigger(cfg.auto_mode, plug, last_plug_state)
        THEN /\ last_plug_state' = plug
             /\ pending' = plug
             /\ pc' = [pc EXCEPT !["mon"] = "entry"]
        ELSE /\ pc' = [pc EXCEPT !["mon"] = "sleep"]
             /\ UNCHANGED <<last_plug_state, pending>>
  /\ UNCHANGED <<cfg, switch, disk, power, hw, os, apply_lock, op, plugged,
                 target, log>>
  /\ race' = Quiesce

\* time.sleep(MONITOR_INTERVAL_SEC) returns.
Wake ==
  /\ pc["mon"] = "sleep"
  /\ pc' = [pc EXCEPT !["mon"] = "poll"]
  /\ UNCHANGED <<cfg, switch, disk, power, hw, os, last_plug_state, apply_lock,
                 op, plugged, target, log, pending>>
  /\ race' = Quiesce

\* Mutant: the early return on an unreadable status is missing.
plug_known_unchecked(plug) == TRUE

\* Line 967: `if plug is None: return`.
plug_known(plug) == plug # "None"

\* Mutant: the lock is taken without looking at it.
acquire_unguarded(locked) == TRUE

\* Line 970: acquire(blocking=False) succeeds iff the lock is free.
acquire_nonblocking(locked) == ~locked

\* apply_for_current_power_state up to the first statement of
\* _apply_targets: called by the monitor, by the "apply now" button and by
\* the tray item.
apply_for_current_power_state(t) ==
  /\ \/ t = "mon" /\ pc[t] = "entry"
     \/ t = "ui" /\ pc[t] = "idle"
  /\ op' = [op EXCEPT ![t] = "now"]
  /\ LET plug == is_plugged_in
         p == IF IsAc(plug) THEN "True" ELSE "False"
     IN IF ~plug_known(plug)
        THEN /\ pc' = [pc EXCEPT ![t] = "ret_unknown"]
             /\ race' = Quiesce
             /\ UNCHANGED <<apply_lock, plugged, target, log>>
        ELSE IF ~acquire_nonblocking(apply_lock)
        THEN /\ pc' = [pc EXCEPT ![t] = "ret_busy"]
             /\ race' = Quiesce
             /\ UNCHANGED <<apply_lock, plugged, target, log>>
        ELSE /\ apply_lock' = TRUE
             /\ plugged' = [plugged EXCEPT ![t] = p]
             /\ target' = [target EXCEPT ![t] = read_targets(cfg, p)]
             /\ log' = [log EXCEPT ![t] = <<>>]
             /\ race' = EnterRace(t)
             /\ pc' = [pc EXCEPT ![t] = "scheme"]
  /\ UNCHANGED <<cfg, switch, disk, power, hw, os, last_plug_state, pending>>

\* manual_apply(mode) up to the first statement of _apply_targets; when
\* save_config raises the handler ends there.
manual_apply(mode) ==
  /\ pc["ui"] = "idle"
  /\ cfg' = [cfg EXCEPT !.auto_mode = FALSE]
  /\ switch' = [switch EXCEPT !.auto = FALSE]
  /\ disk' = write_config(disk, cfg')
  /\ IF write_ok
     THEN /\ op' = [op EXCEPT !["ui"] = "manual"]
          /\ plugged' = [plugged EXCEPT !["ui"] = mode]
          /\ target' = [target EXCEPT !["ui"] = read_targets(cfg', mode)]
          /\ log' = [log EXCEPT !["ui"] = <<>>]
          /\ race' = EnterRace("ui")
          /\ pc' = [pc EXCEPT !["ui"] = "scheme"]
     ELSE /\ race' = Quiesce
          /\ UNCHANGED <<op, plugged, target, log, pc>>
  /\ UNCHANGED <<power, hw, os, last_plug_state, apply_lock, pending>>

Logged(t, name, r) ==
  [log EXCEPT ![t] = Append(@, [step |-> name, res |-> r.res, calls |-> r.calls])]

StepScheme(t) ==
  /\ pc[t] = "scheme"
  /\ LET r == SchemeStep(os, cfg, target[t].plan)
     IN /\ os' = r.os
        /\ log' = Logged(t, "scheme", r)
        /\ pc' = [pc EXCEPT ![t] = next_step("scheme", r.res)]
  /\ UNCHANGED <<cfg, switch, disk, power, hw, last_plug_state, apply_lock, op,
                 plugged, target, pending>>
  /\ race' = Quiesce

StepCpu(t) ==
  /\ pc[t] = "cpu"
  /\ LET r == CpuStep(os, cfg, target[t].plan, plugged[t])
     IN /\ os' = r.os
        /\ log' = Logged(t, "cpu", r)
        /\ pc' = [pc EXCEPT ![t] = next_step("cpu", r.res)]
  /\ UNCHANGED <<cfg, switch, disk, power, hw, last_plug_state, apply_lock, op,
                 plugged, target, pending>>
  /\ race' = Quiesce

StepHz(t) ==
  /\ pc[t] = "hz"
  /\ LET r == HzStep(os, target[t].hz)
     IN /\ os' = r.os
        /\ log' = Logged(t, "hz", r)
        /\ pc' = [pc EXCEPT ![t] = next_step("hz", r.res)]
  /\ pending' = IF pending = plugged[t] THEN "None" ELSE pending
  /\ UNCHANGED <<cfg, switch, disk, power, hw, last_plug_state, apply_lock, op,
                 plugged, target>>
  /\ race' = Quiesce

\* A step of that run of _apply_targets raised.
Raised(steps) == \E i \in DOMAIN steps : steps[i].res = "raise"

\* Mutant: the lock is released after the call, not in a finally block.
lock_after_apply_no_finally(held, o, steps) ==
  IF o = "now" /\ ~Raised(steps) THEN FALSE ELSE held

\* Lines 972-975: apply_for_current_power_state releases the lock in its
\* finally block, however _apply_targets ended; the other callers of
\* _apply_targets hold no lock.
lock_after_apply(held, o, steps) == IF o = "now" THEN FALSE ELSE held

\* Mutant: the monitor loop has no try/except, an exception ends the thread.
resume_unless_raised(t, steps) ==
  IF t = "mon" /\ Raised(steps) THEN "dead" ELSE Home(t)

\* Where a thread goes on after _apply_targets: the monitor to its sleep
\* (line 1015; an exception is swallowed at lines 1013-1014), the Tk main
\* loop to idling (an exception is reported by Tk's callback handler).
resume(t, steps) == Home(t)

\* _apply_targets has returned or raised.
ApplyExit(t) ==
  /\ pc[t] = "exit"
  /\ apply_lock' = lock_after_apply(apply_lock, op[t], log[t])
  /\ pc' = [pc EXCEPT ![t] = resume(t, log[t])]
  /\ op' = [op EXCEPT ![t] = "-"]
  /\ plugged' = [plugged EXCEPT ![t] = "None"]
  /\ target' = [target EXCEPT ![t] = NoTarget]
  /\ log' = [log EXCEPT ![t] = <<>>]
  /\ UNCHANGED <<cfg, switch, disk, power, hw, os, last_plug_state, race, pending>>

\* apply_for_current_power_state has returned early.
Return(t) ==
  /\ pc[t] \in {"ret_unknown", "ret_busy"}
  /\ pc' = [pc EXCEPT ![t] = Home(t)]
  /\ op' = [op EXCEPT ![t] = "-"]
  /\ UNCHANGED <<cfg, switch, disk, power, hw, os, last_plug_state, apply_lock,
                 plugged, target, log, pending>>
  /\ race' = Quiesce

\* ui_apply_cpu_policy_tab(mode): the button of a CPU tab writes that tab's
\* policy to the plan chosen for it, whatever the toggles say and without
\* the lock; with no plan chosen it returns at once.
ui_apply_cpu_policy_tab(mode) ==
  /\ pc["ui"] = "idle"
  /\ read_targets(cfg, mode).plan # NoGuid
  /\ LET plan == read_targets(cfg, mode).plan
         pol == IF IsAc(mode) THEN cfg.cpu_ac ELSE cfg.cpu_bat
         r == apply_cpu_policy_to_scheme(os, plan, IsAc(mode), pol)
     IN /\ os' = r.os
        /\ log' = Logged("ui", "cpu", [res |-> Res(r.ok), calls |-> r.calls])
        /\ target' = [target EXCEPT !["ui"] = [hz |-> NoHz, plan |-> plan]]
  /\ plugged' = [plugged EXCEPT !["ui"] = mode]
  /\ op' = [op EXCEPT !["ui"] = "tab"]
  /\ pc' = [pc EXCEPT !["ui"] = "exit"]
  /\ race' = Quiesce
  /\ UNCHANGED <<cfg, switch, disk, power, hw, last_plug_state, apply_lock,
                 pending>>

\* The rates the two Hz menus offer: the list enumerated at startup, or the
\* built-in list when that was empty.
MenuHz ==
  IF list_supported_hz_for_current_mode # <<>>
  THEN SeqRange(list_supported_hz_for_current_mode)
  ELSE {60, 75, 120, 144, 165, 240}

\* on_ac_hz_selected / on_bat_hz_selected: the chosen rate is stored and the
\* configuration saved; an exception of save_config is swallowed.
on_hz_selected(mode, v) ==
  /\ pc["ui"] = "idle"
  /\ cfg' = IF IsAc(mode) THEN [cfg EXCEPT !.ac_hz = v]
            ELSE [cfg EXCEPT !.battery_hz = v]
  /\ disk' = write_config(disk, cfg')
  /\ race' = RaceAfterChange
  /\ UNCHANGED <<switch, power, hw, os, last_plug_state, apply_lock, pc, op,
                 plugged, target, log, pending>>

\* on_ac_plan_selected / on_bat_plan_selected: the guid behind the chosen
\* menu entry (None for the placeholder entry) is stored and saved.
on_plan_selected(mode, guid) ==
  /\ pc["ui"] = "idle"
  /\ cfg' = IF IsAc(mode) THEN [cfg EXCEPT !.ac_plan_guid = guid]
            ELSE [cfg EXCEPT !.battery_plan_guid = guid]
  /\ disk' = write_config(disk, cfg')
  /\ race' = RaceAfterChange
  /\ UNCHANGED <<switch, power, hw, os, last_plug_state, apply_lock, pc, op,
                 plugged, target, log, pending>>

\* The policy object a CPU tab edits.
PolicyKey(mode) == IF IsAc(mode) THEN "cpu_ac" ELSE "cpu_bat"

\* Where the UI thread stands inside _on_cpu_slider for that tab, between
\* the setattr and the re-clamp.
ClampPc(mode) == IF IsAc(mode) THEN "clamp_ac" ELSE "clamp_bat"

\* Lines 786-787 of _on_cpu_slider.
slider_clamp(pol) ==
  IF pol.cpu_min > pol.cpu_max THEN [pol EXCEPT !.cpu_min = pol.cpu_max] ELSE pol

\* _on_cpu_slider, first half: setattr(pol, field_name, int(value)) on the
\* policy object the applies read.
on_cpu_slider(mode, field_name, value) ==
  /\ pc["ui"] = "idle"
  /\ cfg' = [cfg EXCEPT ![PolicyKey(mode)][field_name] = value]
  /\ pc' = [pc EXCEPT !["ui"] = ClampPc(mode)]
  /\ race' = RaceAfterChange
  /\ UNCHANGED <<switch, disk, power, hw, os, last_plug_state, apply_lock, op,
                 plugged, target, log, pending>>

\* _on_cpu_slider, second half: the re-clamp of cpu_min and save_config.
on_cpu_slider_clamp(mode) ==
  /\ pc["ui"] = ClampPc(mode)
  /\ cfg' = [cfg EXCEPT ![PolicyKey(mode)] = slider_clamp(@)]
  /\ disk' = write_config(disk, cfg')
  /\ pc' = [pc EXCEPT !["ui"] = "idle"]
  /\ race' = RaceAfterChange
  /\ UNCHANGED <<switch, power, hw, os, last_plug_state, apply_lock, op,
                 plugged, target, log, pending>>

\* _on_cpu_option: a menu choice (boost mode, cooling policy) is stored and
\* saved; nothing is re-clamped.
on_cpu_option(mode, field_name, value) ==
  /\ pc["ui"] = "idle"
  /\ cfg' = [cfg EXCEPT ![PolicyKey(mode)][field_name] = value]
  /\ disk' = write_config(disk, cfg')
  /\ race' = RaceAfterChange
  /\ UNCHANGED <<switch, power, hw, os, last_plug_state, apply_lock, pc, op,
                 plugged, target, log, pending>>

\* The user flips switch w; the switch's command, on_toggle, copies all
\* three switches into the configuration and saves it.
on_toggle(w) ==
  /\ pc["ui"] = "idle"
  /\ switch' = [switch EXCEPT ![w] = ~@]
  /\ cfg' = [cfg EXCEPT !.auto_mode = switch'.auto,
                        !.set_power_plan = switch'.power,
                        !.set_cpu_policy = switch'.cpu]
  /\ disk' = write_config(disk, cfg')
  /\ race' = IF w = "auto" THEN Quiesce ELSE RaceAfterChange
  /\ UNCHANGED <<power, hw, os, last_plug_state, apply_lock, pc, op, plugged,
                 target, log, pending>>

\* The power source changes, or its status becomes (un)readable.
PowerChange(p) ==
  /\ p # power
  /\ power' = p
  /\ race' = RaceAfterChange
  /\ UNCHANGED <<cfg, switch, disk, hw, os, last_plug_state, apply_lock, pc, op,
                 plugged, target, log, pending>>

MonitorNext ==
  \/ battery_monitor
  \/ Wake
  \/ apply_for_current_power_state("mon")
  \/ StepScheme("mon") \/ StepCpu("mon") \/ StepHz("mon")
  \/ ApplyExit("mon") \/ Return("mon")

\* The handler running on the Tk main loop goes on.
UiContinue ==
  \/ StepScheme("ui") \/ StepCpu("ui") \/ StepHz("ui")
  \/ ApplyExit("ui") \/ Return("ui")

Next ==
  \/ battery_monitor
  \/ Wake
  \/ \E t \in Threads : apply_for_current_power_state(t)
  \/ \E mode \in {"True", "False"} : manual_apply(mode)
  \/ \E t \in Threads : StepScheme(t)
  \/ \E t \in Threads : StepCpu(t)
  \/ \E t \in Threads : StepHz(t)
  \/ \E t \in Threads : ApplyExit(t)
  \/ \E t \in Threads : Return(t)
  \/ \E w \in {"auto", "power", "cpu"} : on_toggle(w)
  \/ \E p \in PlugStates : PowerChange(p)

Spec == Init /\ [][Next]_vars

\* Runs in which the user only ever presses "apply now" and changes no
\* setting: the scheduler runs the monitor thread and lets a running handler
\* go on, and OS calls return.  The user and the power source owe nothing.
FairInit ==
  /\ Init
  /\ hw = HwPlain
  /\ cfg.auto_mode /\ cfg.set_power_plan /\ cfg.set_cpu_policy

FairNext ==
  \/ battery_monitor
  \/ Wake
  \/ \E t \in Threads : apply_for_current_power_state(t)
  \/ \E t \in Threads : StepScheme(t)
  \/ \E t \in Threads : StepCpu(t)
  \/ \E t \in Threads : StepHz(t)
  \/ \E t \in Threads : ApplyExit(t)
  \/ \E t \in Threads : Return(t)
  \/ \E p \in PlugStates : PowerChange(p)

FairSpec ==
  FairInit /\ [][FairNext]_vars /\ WF_vars(MonitorNext) /\ WF_vars(UiContinue)

\* Values a hand-edited or stale policy field can hold, in and out of range.
PercentInputs == {0 - 1, 0, 50, 80, 100, 101}

MaxInputs == {0 - 1, 0, 1, 50, 100, 101}

ChoiceInputs == {0 - 1, 0, 1, 2, 3}

ParkInputs == {0 - 5, 20, 101}

PolicyInputs ==
  { CpuPolicy(e, b, mn, mx, cp, cl) :
      e \in {0 - 1, 90, 101}, b \in ChoiceInputs, mn \in PercentInputs,
      mx \in MaxInputs, cp \in ParkInputs, cl \in ChoiceInputs }

\* The state of a machine at rest, with the monitor asleep and auto mode off.
AtRest(c, h, o) ==
  /\ cfg = c /\ hw = h /\ os = o
  /\ switch = [auto |-> c.auto_mode, power |-> c.set_power_plan,
               cpu |-> c.set_cpu_policy]
  /\ disk = save_config(c)
  /\ power = "True"
  /\ last_plug_state = "None"
  /\ apply_lock = FALSE
  /\ pc = [t \in Threads |-> Home(t)]
  /\ op = [t \in Threads |-> "-"]
  /\ plugged = [t \in Threads |-> "None"]
  /\ target = [t \in Threads |-> NoTarget]
  /\ log = [t \in Threads |-> <<>>]
  /\ race = "none"
  /\ pending = "None"

FactoryOs(active, hz) ==
  [active |-> active, hz |-> hz,
   vals |-> [g \in OsSchemes |-> [sl \in {"ac", "dc"} |-> OsFactoryValues]]]

\* apply_cpu_policy_to_scheme on its inputs: any firmware table (any set of
\* missing settings) with two policies and a known or a stale plan guid, and
\* every policy of PolicyInputs on plain hardware.
CpuInit ==
  \E pol \in PolicyInputs \cup {StalePolicy, default_cpu_ac},
     nk \in SUBSET Settings, g \in {1, StaleGuid} :
    /\ (nk = {} /\ g = 1) \/ pol \in {StalePolicy, default_cpu_ac}
    /\ AtRest(Config(FALSE, FALSE, FALSE, 144, 60, g, NumSchemes,
                      pol, default_cpu_bat),
              Hardware({}, nk, TRUE, "ok"), FactoryOs(NumSchemes, 60))

CpuNext ==
  \/ \E mode \in {"True", "False"} : ui_apply_cpu_policy_tab(mode)
  \/ ApplyExit("ui")

CpuSpec == CpuInit /\ [][CpuNext]_vars

\* Target rates a loaded configuration can hold: rates of this panel and
\* rates saved for another display.
HzInputs == {60, 75, 144, 165}

\* set_hz on its inputs: any current rate of the panel, any stored target,
\* a driver that enumerates modes or none; the user picks rates and applies
\* a profile with both toggles off.
HzInit ==
  \E a \in HzInputs, b \in HzInputs, en \in BOOLEAN, cur \in PanelHz :
    AtRest(Config(FALSE, FALSE, FALSE, a, b, 1, NumSchemes,
                  default_cpu_ac, default_cpu_bat),
           Hardware({}, {}, en, "ok"), FactoryOs(1, cur))

HzNext ==
  \/ \E mode \in {"True", "False"}, v \in MenuHz : on_hz_selected(mode, v)
  \/ \E mode \in {"True", "False"} : manual_apply(mode)
  \/ StepScheme("ui")
  \/ StepCpu("ui")
  \/ StepHz("ui")
  \/ ApplyExit("ui")

HzSpec == HzInit /\ [][HzNext]_vars

\* set_power_scheme_by_guid on its inputs: any plan guid in the
\* configuration (none, known, stale), any set of OEM-locked schemes, any
\* scheme active at the start or none readable; the user applies a profile
\* with only the scheme toggle on.
SchemeInit ==
  \E g \in {NoGuid, StaleGuid} \cup OsSchemes, lk \in SUBSET OsSchemes,
     act \in {NoGuid} \cup OsSchemes :
    AtRest(Config(FALSE, TRUE, FALSE, 144, 60, g, 1,
                  default_cpu_ac, default_cpu_bat),
           Hardware(lk, {}, TRUE, "ok"), FactoryOs(act, 60))

SchemeNext ==
  \/ \E mode \in {"True", "False"} : manual_apply(mode)
  \/ StepScheme("ui")
  \/ StepCpu("ui")
  \/ StepHz("ui")
  \/ ApplyExit("ui")

SchemeSpec == SchemeInit /\ [][SchemeNext]_vars

\* Positions the user drags a clock slider to.
SliderStops == {30, 80}

\* The user edits the configuration while the monitor runs: every edit
\* handler, the profile buttons and the monitor's own applies, on a store
\* that takes writes, refuses them or runs full.
EditInit ==
  \E a \in BOOLEAN, st \in {"ok", "denied", "full"} :
    AtRest(Config(a, FALSE, TRUE, 144, 60, 1, NumSchemes,
                  default_cpu_ac, default_cpu_bat),
           Hardware({}, {}, TRUE, st), FactoryOs(NumSchemes, 60))

EditNext ==
  \/ battery_monitor
  \/ Wake
  \/ apply_for_current_power_state("mon")
  \/ \E t \in Threads : StepScheme(t)
  \/ \E t \in Threads : StepCpu(t)
  \/ \E t \in Threads : StepHz(t)
  \/ \E t \in Threads : ApplyExit(t)
  \/ manual_apply("False")
  \/ on_toggle("auto")
  \/ \E v \in MenuHz : on_hz_selected("False", v)
  \/ \E g \in {NoGuid, 1} : on_plan_selected("True", g)
  \/ \E f \in {"cpu_min", "cpu_max"}, v \in SliderStops :
       on_cpu_slider("True", f, v)
  \/ on_cpu_slider_clamp("True")
  \/ \E v \in {0, 1} : on_cpu_option("True", "cooling_policy", v)

EditSpec == EditInit /\ [][EditNext]_vars

\* What a document can hold for a switch: nothing, null, a boolean, a
\* number, a string.
RawToggles ==
  {JAbsent, JNull, JBool(FALSE), JBool(TRUE), JInt(0), JVal("str", 0)}

\* What a document can hold for a policy field: nothing, an integer, a
\* numeric string, a float (45.5), a boolean, null, a word.
RawFields ==
  {JAbsent, JInt(80), JInt(50), JVal("str", 30), JVal("float", 455),
   JBool(TRUE), JNull, JBad}

\* What a document can hold as cpu_ac: an object with some fields, or a
\* value that is no object.
RawPolicies ==
  { [k |-> "dict",
     f |-> [x \in PolicyFields |->
              CASE x = "epp" -> e
                [] x = "cpu_min" -> mn
                [] x = "cpu_max" -> mx
                [] OTHER -> JAbsent]] :
      e \in RawFields, mn \in RawFields, mx \in RawFields }
  \cup {JNoPolicy("absent"), JNoPolicy("null"), JNoPolicy("bad")}

\* The persisted documents load_config is run on.
Documents ==
  { [json |-> TRUE, auto_mode |-> a, set_power_plan |-> p,
     set_cpu_policy |-> JBool(TRUE),
     ac_hz |-> hz, battery_hz |-> 60,
     ac_plan_guid |-> g, battery_plan_guid |-> NoGuid,
     cpu_ac |-> ca, cpu_bat |-> cb] :
      a \in RawToggles, p \in {JAbsent, JBool(FALSE)}, hz \in {NoHz, 144},
      g \in {NoGuid, 1, LoneSurrogate}, ca \in RawPolicies,
      cb \in {JNoPolicy("null"), JPolicy(default_cpu_ac)} }
  \cup {NoDocument}

\* Before HzApp.__init__ has run: any document in the store, nothing loaded.
StoreInit ==
  /\ disk \in Documents
  /\ cfg = AppConfig
  /\ switch = [auto |-> TRUE, power |-> TRUE, cpu |-> TRUE]
  /\ hw = HwPlain
  /\ os = FactoryOs(1, 60)
  /\ power = "True"
  /\ last_plug_state = "None"
  /\ apply_lock = FALSE
  /\ pc = [t \in Threads |-> IF t = "ui" THEN "load" ELSE "sleep"]
  /\ op = [t \in Threads |-> "-"]
  /\ plugged = [t \in Threads |-> "None"]
  /\ target = [t \in Threads |-> NoTarget]
  /\ log = [t \in Threads |-> <<>>]
  /\ race = "none"
  /\ pending = "None"

\* self.cfg = load_config()
LoadConfig ==
  /\ pc["ui"] = "load"
  /\ Len(log["ui"]) < RoundTrips
  /\ cfg' = load_config(disk)
  /\ pc' = [pc EXCEPT !["ui"] = "save"]
  /\ UNCHANGED <<switch, disk, power, hw, os, last_plug_state, apply_lock, op,
                 plugged, target, log, race, pending>>

\* save_config(self.cfg); log keeps the documents written, in order.
SaveConfig ==
  /\ pc["ui"] = "save"
  /\ disk' = write_config(disk, cfg)
  /\ log' = [log EXCEPT !["ui"] = Append(@, disk')]
  /\ pc' = [pc EXCEPT !["ui"] = "load"]
  /\ UNCHANGED <<cfg, switch, power, hw, os, last_plug_state, apply_lock, op,
                 plugged, target, race, pending>>

StoreNext == LoadConfig \/ SaveConfig

StoreSpec == StoreInit /\ [][StoreNext]_vars

(* -------------------------------------------------- manual and auto mode *)

\* A healthy machine on AC with both profiles configured and auto mode on.
ManualInit ==
  AtRest(Config(TRUE, TRUE, TRUE, 144, 60, 1, NumSchemes,
                default_cpu_ac, default_cpu_bat),
         HwPlain, FactoryOs(NumSchemes, 60))

\* The user puts the auto switch back on.
switch_auto_on == ~switch.auto /\ on_toggle("auto")

\* The power source changes while auto mode is off.
PowerChangeInManual(p) == ~cfg.auto_mode /\ p # "None" /\ PowerChange(p)

\* The monitor runs, the user applies a profile by hand (which turns auto
\* mode off) and turns auto mode on again; the power source changes while
\* auto mode is off.
ManualNext ==
  \/ battery_monitor
  \/ Wake
  \/ apply_for_current_power_state("mon")
  \/ \E mode \in {"True", "False"} : manual_apply(mode)
  \/ \E t \in Threads : StepScheme(t)
  \/ \E t \in Threads : StepCpu(t)
  \/ \E t \in Threads : StepHz(t)
  \/ \E t \in Threads : ApplyExit(t)
  \/ switch_auto_on
  \/ \E p \in PlugStates : PowerChangeInManual(p)

ManualSpec == ManualInit /\ [][ManualNext]_vars

(* -------------------------------------------- the monitor among failures *)

\* A machine on which every step of an apply fails: the AC plan is
\* OEM-locked, the firmware lacks the max-clock setting, the AC target rate
\* is a word; the battery plan is unknown to powercfg and the battery target
\* rate is one the panel lacks.
HwHostile == Hardware({1}, {"PROCTHROTTLEMAX"}, TRUE, "ok")

PollInit ==
  /\ \E a \in {144, BadHz} :
       AtRest(Config(TRUE, TRUE, TRUE, a, 75, 1, StaleGuid,
                     default_cpu_ac, default_cpu_bat),
              HwHostile, FactoryOs(NumSchemes, 60))

PollNext ==
  \/ battery_monitor
  \/ Wake
  \/ \E t \in Threads : apply_for_current_power_state(t)
  \/ \E t \in Threads : StepScheme(t)
  \/ \E t \in Threads : StepCpu(t)
  \/ \E t \in Threads : StepHz(t)
  \/ \E t \in Threads : ApplyExit(t)
  \/ \E t \in Threads : Return(t)
  \/ \E p \in PlugStates : PowerChange(p)

\* The scheduler runs the monitor thread and OS calls return.
PollSpec == PollInit /\ [][PollNext]_vars /\ WF_vars(MonitorNext)

(* ------------------------------------- the scheme functions on their own *)

\* The guids the two functions are called with: none, a known one, one
\* powercfg does not know.
GuidInputs == {NoGuid, 1, StaleGuid}

\* The machines the functions are called on: any set of OEM-locked
\* schemes, a firmware table that is whole or lacks one setting, any active
\* scheme, a default or an out-of-range AC policy.
CallInit ==
  \E lk \in SUBSET OsSchemes,
     nk \in {{}, {"PERFEPP"}, {"PERFBOOSTMODE"}},
     act \in {NoGuid} \cup OsSchemes,
     pol \in {default_cpu_ac, StalePolicy} :
    AtRest(Config(FALSE, TRUE, TRUE, 144, 60, 1, NumSchemes, pol, default_cpu_bat),
           Hardware(lk, nk, TRUE, "ok"), FactoryOs(act, 60))

\* set_power_scheme_by_guid(guid) is called; log keeps what it returned and
\* the powercfg runs it made.
call_set_power_scheme_by_guid(guid) ==
  /\ pc["ui"] = "idle"
  /\ LET r == set_power_scheme_by_guid(os, guid)
     IN /\ os' = r.os
        /\ log' = [log EXCEPT !["ui"] =
                     <<[step |-> "scheme", res |-> Res(r.ok), calls |-> r.calls,
                        msg |-> r.msg]>>]
  /\ target' = [target EXCEPT !["ui"] = [hz |-> NoHz, plan |-> guid]]
  /\ op' = [op EXCEPT !["ui"] = "call"]
  /\ pc' = [pc EXCEPT !["ui"] = "exit"]
  /\ UNCHANGED <<cfg, switch, disk, power, hw, last_plug_state, apply_lock,
                 plugged, race, pending>>

\* apply_cpu_policy_to_scheme(guid, plugged, ...) is called with the fields
\* of the policy kept for that power state.
call_apply_cpu_policy_to_scheme(guid, mode) ==
  /\ pc["ui"] = "idle"
  /\ LET pol == IF IsAc(mode) THEN cfg.cpu_ac ELSE cfg.cpu_bat
         r == apply_cpu_policy_to_scheme(os, guid, IsAc(mode), pol)
     IN /\ os' = r.os
        /\ log' = [log EXCEPT !["ui"] =
                     <<[step |-> "cpu", res |-> Res(r.ok), calls |-> r.calls,
                        msg |-> r.msg]>>]
  /\ target' = [target EXCEPT !["ui"] = [hz |-> NoHz, plan |-> guid]]
  /\ plugged' = [plugged EXCEPT !["ui"] = mode]
  /\ op' = [op EXCEPT !["ui"] = "call"]
  /\ pc' = [pc EXCEPT !["ui"] = "exit"]
  /\ UNCHANGED <<cfg, switch, disk, power, hw, last_plug_state, apply_lock,
                 race, pending>>

CallNext ==
  \/ \E g \in GuidInputs : call_set_power_scheme_by_guid(g)
  \/ \E g \in GuidInputs, mode \in {"True", "False"} :
       call_apply_cpu_policy_to_scheme(g, mode)
  \/ ApplyExit("ui")

CallSpec == CallInit /\ [][CallNext]_vars

(* ----------------------------------- list_supported_hz_for_current_mode *)

\* Modes a driver may report: at the current resolution or with another
\* width or height, at the current colour depth or another, with a
\* frequency in or just outside 20..500.
ModeInputs ==
  { Mode(r[1], r[2], bpp, f) :
      r \in {<<1920, 1080>>, <<1920, 1200>>, <<1280, 1080>>},
      bpp \in {32, 16}, f \in {19, 20, 500, 501} }

\* Mode tables of up to MaxModes entries, in any order, with repetitions.
ModeTables == UNION { [1..n -> ModeInputs] : n \in 0..MaxModes }

\* A display with any mode table, readable or not.
ModesInit ==
  \E tbl \in ModeTables, en \in BOOLEAN :
    AtRest(Config(FALSE, FALSE, FALSE, 144, 60, 1, NumSchemes,
                  default_cpu_ac, default_cpu_bat),
           [Hardware({}, {}, en, "ok") EXCEPT !.modes = tbl],
           FactoryOs(1, 60))

\* list_supported_hz_for_current_mode() is called; log keeps the list.
call_list_supported_hz ==
  /\ pc["ui"] = "idle"
  /\ log' = [log EXCEPT !["ui"] =
               <<[step |-> "enum", res |-> "ok", calls |-> <<>>,
                  out |-> list_supported_hz_for_current_mode]>>]
  /\ op' = [op EXCEPT !["ui"] = "enum"]
  /\ pc' = [pc EXCEPT !["ui"] = "exit"]
  /\ UNCHANGED <<cfg, switch, disk, power, hw, os, last_plug_state, apply_lock,
                 plugged, target, race, pending>>

ModesNext == call_list_supported_hz \/ ApplyExit("ui")

ModesSpec == ModesInit /\ [][ModesNext]_vars

(* ------------------------------------------------------- HzApp.__init__ *)

SetMin(S) == CHOOSE x \in S : \A y \in S : x <= y

SetMax(S) == CHOOSE x \in S : \A y \in S : y <= x

\* Lines 857-861: a plan guid that is falsy becomes the active scheme's guid
\* (None when no scheme is marked active).
default_plan_guids(c, o) ==
  [c EXCEPT !.ac_plan_guid = IF @ = NoGuid THEN get_active_power_scheme(o) ELSE @,
            !.battery_plan_guid = IF @ = NoGuid THEN get_active_power_scheme(o) ELSE @]

\* Mutant: the battery target defaults to the highest supported rate.
default_target_hz_highest(c, o) ==
  LET cur_hz == IF o.hz # NoHz THEN o.hz ELSE SetMax(MenuHz)
  IN [c EXCEPT !.ac_hz = IF @ = NoHz THEN cur_hz ELSE @,
               !.battery_hz = IF @ = NoHz THEN SetMax(MenuHz) ELSE @]

\* Lines 529-533: cur_hz is get_current_hz(), or the last entry of the
\* (ascending) supported list when that is None or 0; a target that is None
\* is defaulted, any other value is kept.
default_target_hz(c, o) ==
  LET cur_hz == IF o.hz # NoHz THEN o.hz ELSE SetMax(MenuHz)
  IN [c EXCEPT !.ac_hz = IF @ = NoHz THEN cur_hz ELSE @,
               !.battery_hz = IF @ = NoHz THEN SetMin(MenuHz) ELSE @]

\* guid.lower() raises: the value is truthy and no string.
lower_raises(guid) == guid = NumberGuid

\* The documents HzApp.__init__ is started on: none, and objects whose
\* target rates and plan guids are missing, usable, or of the wrong kind.
BootDocuments ==
  { [json |-> TRUE, auto_mode |-> a, set_power_plan |-> JAbsent,
     set_cpu_policy |-> JAbsent,
     ac_hz |-> ah, battery_hz |-> bh,
     ac_plan_guid |-> ag, battery_plan_guid |-> bg,
     cpu_ac |-> JNoPolicy("absent"), cpu_bat |-> JNoPolicy("null")] :
      a \in {JAbsent, JBool(FALSE)}, ah \in {NoHz, 75, BadHz},
      bh \in {NoHz, 144},
      ag \in {NoGuid, 1, StaleGuid, NumberGuid, LoneSurrogate},
      bg \in {NoGuid, NumSchemes} }
  \cup {NoDocument}

\* The process has been started: nothing is loaded, no thread runs yet.
BootInit ==
  /\ disk \in BootDocuments
  /\ cfg = AppConfig
  /\ switch = [auto |-> TRUE, power |-> TRUE, cpu |-> TRUE]
  /\ \E en \in BOOLEAN : hw = Hardware({}, {}, en, "ok")
  /\ \E act \in {NoGuid, 1}, hz \in PanelHz \cup {NoHz} : os = FactoryOs(act, hz)
  /\ power \in {"True", "False"}
  /\ last_plug_state = "None"
  /\ apply_lock = FALSE
  /\ pc = [t \in Threads |-> IF t = "ui" THEN "boot_load" ELSE "unborn"]
  /\ op = [t \in Threads |-> "-"]
  /\ plugged = [t \in Threads |-> "None"]
  /\ target = [t \in Threads |-> NoTarget]
  /\ log = [t \in Threads |-> <<>>]
  /\ race = "none"
  /\ pending = "None"

\* Line 497: self.cfg = load_config().
init_load_config ==
  /\ pc["ui"] = "boot_load"
  /\ cfg' = load_config(disk)
  /\ pc' = [pc EXCEPT !["ui"] = "boot_plans"]
  /\ UNCHANGED <<switch, disk, power, hw, os, last_plug_state, apply_lock, op,
                 plugged, target, log, race, pending>>

\* Line 526: refresh_power_plans(initial=True) defaults the plan guids and
\* saves; an exception of save_config leaves __init__ and ends the process.
init_refresh_power_plans ==
  /\ pc["ui"] = "boot_plans"
  /\ cfg' = default_plan_guids(cfg, os)
  /\ disk' = write_config(disk, cfg')
  /\ pc' = [pc EXCEPT !["ui"] =
               IF write_ok /\ encodable(cfg') THEN "boot_hz" ELSE "crashed"]
  /\ UNCHANGED <<switch, power, hw, os, last_plug_state, apply_lock, op,
                 plugged, target, log, race, pending>>

\* Lines 529-534: the target rates are defaulted and the configuration saved.
init_default_hz ==
  /\ pc["ui"] = "boot_hz"
  /\ cfg' = default_target_hz(cfg, os)
  /\ disk' = write_config(disk, cfg')
  /\ pc' = [pc EXCEPT !["ui"] =
               IF write_ok /\ encodable(cfg') THEN "boot_build" ELSE "crashed"]
  /\ UNCHANGED <<switch, power, hw, os, last_plug_state, apply_lock, op,
                 plugged, target, log, race, pending>>

\* Lines 554-655: the switches take the configuration's values, the plan
\* menus are synchronised (guid.lower() on each guid that is set) and the
\* monitor thread is started; an exception ends the process.
init_build_ui ==
  /\ pc["ui"] = "boot_build"
  /\ switch' = [auto |-> cfg.auto_mode, power |-> cfg.set_power_plan,
                cpu |-> cfg.set_cpu_policy]
  /\ pc' = IF lower_raises(cfg.ac_plan_guid) \/ lower_raises(cfg.battery_plan_guid)
           THEN [pc EXCEPT !["ui"] = "crashed"]
           ELSE [mon |-> "poll", ui |-> "idle"]
  /\ UNCHANGED <<cfg, disk, power, hw, os, last_plug_state, apply_lock, op,
                 plugged, target, log, race, pending>>

BootNext ==
  \/ init_load_config
  \/ init_refresh_power_plans
  \/ init_default_hz
  \/ init_build_ui
  \/ battery_monitor
  \/ Wake
  \/ apply_for_current_power_state("mon")
  \/ manual_apply("True")
  \/ \E t \in Threads : StepScheme(t)
  \/ \E t \in Threads : StepCpu(t)
  \/ \E t \in Threads : StepHz(t)
  \/ \E t \in Threads : ApplyExit(t)

BootSpec == BootInit /\ [][BootNext]_vars

(* ----------------------------------------------------------------- claims *)

Known == {"True", "False"}

\* The apply of thread t took the lock (apply_for_current_power_state).
InsideNow(t) == Inside(t) /\ op[t] = "now"

\* Thread t has just finished a step of _apply_targets.
Stepped(t) == Len(log'[t]) = Len(log[t]) + 1

\* The step thread t has just finished.
NewStep(t) == log'[t][Len(log'[t])]

HasCall(calls, name) == \E i \in DOMAIN calls : calls[i].op = name

OnlyCalls(calls, names) == \A i \in DOMAIN calls : calls[i].op \in names

\* C1: on every monitor poll, apply_for_current_power_state is invoked iff
\* auto mode is on, the reading is OnLine or OnBattery and it differs from
\* the last recorded state (so the first known reading, compared with the
\* unset sentinel, always triggers); the recorded state then becomes the
\* reading; in every other poll the recorded state is unchanged, the monitor
\* goes to sleep, and no poll itself writes to the OS.
C1_PollTransitionRule ==
  [][ (pc["mon"] = "poll" /\ pc'["mon"] # "poll") =>
        LET trig == cfg.auto_mode /\ power \in Known /\ power # last_plug_state
        IN /\ (pc'["mon"] = "entry") <=> trig
           /\ trig => last_plug_state' = power
           /\ ~trig => (pc'["mon"] = "sleep" /\ last_plug_state' = last_plug_state)
           /\ (last_plug_state = "None" /\ cfg.auto_mode /\ power \in Known)
                => pc'["mon"] = "entry"
           /\ os' = os ]_vars

\* The first known reading after startup (battery) has triggered the apply.
C1_Witness ==
  /\ pc["mon"] = "entry"
  /\ last_plug_state = "False"
  /\ power = "False"
  /\ os \in {ScenarioOs(sc) : sc \in Scenarios}

\* C2: while auto mode stays on and the power source stays in the state the
\* monitor has recorded, that recorded transition is eventually followed by
\* a complete run of the three apply steps for that state (by any thread),
\* provided the monitor keeps running and OS calls return.  pending names
\* the recorded state whose apply is still owed.
C2_TransitionEventuallyApplied ==
  \A p \in Known :
    (pending = p /\ cfg.auto_mode)
      ~> (pending # p \/ ~cfg.auto_mode \/ power # p)

\* C3: a reading of Unknown causes no action: a poll that reads it goes to
\* sleep with the recorded state, the OS and the lock untouched; an
\* apply_for_current_power_state that reads it (monitor or "apply now")
\* returns at once with the OS and the lock untouched; and no lock-taking
\* apply ever runs for anything but the OnLine/OnBattery reading it made.
C3_UnknownInert ==
  [][ /\ (pc["mon"] = "poll" /\ pc'["mon"] # "poll" /\ power = "None") =>
           /\ pc'["mon"] = "sleep"
           /\ last_plug_state' = last_plug_state
           /\ os' = os /\ apply_lock' = apply_lock
      /\ \A t \in Threads :
           /\ (pc[t] \in {"entry", "idle"} /\ op[t] = "-" /\ op'[t] = "now"
                 /\ power = "None") =>
                /\ pc'[t] = "ret_unknown"
                /\ os' = os /\ apply_lock' = apply_lock
                /\ last_plug_state' = last_plug_state
           /\ (pc[t] \in {"entry", "idle"} /\ op'[t] = "now"
                 /\ pc'[t] \in {"scheme", "cpu", "hz", "exit"}) =>
                (power \in Known /\ plugged'[t] = power) ]_vars

\* Unknown was read by a poll (the monitor sleeps, nothing recorded) and by
\* an "apply now", which has returned early.
C3_Witness ==
  /\ power = "None"
  /\ pc["ui"] = "ret_unknown"
  /\ pc["mon"] = "sleep"
  /\ cfg.auto_mode
  /\ last_plug_state = "None"

C5_AutoNeverDropped == pc["mon"] # "ret_busy"

\* C6: when a manual apply and an automatic apply have overlapped, with no
\* field read by an apply and no power change in the meantime, the OS state
\* after both is one a single whole apply leaves behind (for the current
\* power state, or at least for one of the two states).
C6_OverlapConsistent ==
  (pc["mon"] \in {"poll", "sleep"} /\ pc["ui"] = "idle" /\ race = "overlap")
    => \E p \in Known : apply_targets(os, cfg, p) = os

\* C7: for each state, _apply_targets run a second time right after itself,
\* with the same AppConfig, leaves the OS state (active scheme, every
\* scheme's AC and DC values, display frequency) as the first run left it.
C7_Idempotent ==
  \A p \in Known :
    LET o1 == apply_targets(os, cfg, p)
    IN apply_targets(o1, cfg, p) = o1

\* An apply that activated its scheme, wrote its policy and changed the
\* display frequency has finished, and a second one would change nothing.
C7_Witness ==
  \E t \in Threads :
    /\ pc[t] = "exit"
    /\ Len(log[t]) = 3
    /\ \A i \in 1..3 : log[t][i].res = "ok" /\ log[t][i].calls # <<>>
    /\ os.active = target[t].plan
    /\ os.hz = target[t].hz
    /\ apply_targets(os, cfg, plugged[t]) = os

\* C8 as stated: with the scheme toggle off, no step of an apply issues a
\* scheme activation.
C8_Original ==
  [][ \A t \in Threads :
        (Stepped(t) /\ ~cfg.set_power_plan)
          => ~HasCall(NewStep(t).calls, "setactive") ]_vars

\* C8 amended: a step of an apply issues a scheme activation only when a
\* target guid is configured and either it is the scheme step and the scheme
\* toggle is on, or it is the CPU-policy step, the CPU-policy toggle is on
\* and the three mandatory fields were written (the re-activation that ends
\* apply_cpu_policy_to_scheme); the active scheme changes in no other step.
C8_ActivationOnlyWhenToggled ==
  [][ \A t \in Threads :
        Stepped(t) =>
          LET e == NewStep(t)
              wrote(st) == \E i \in DOMAIN e.calls :
                             e.calls[i].setting = st /\ e.calls[i].ok
          IN /\ HasCall(e.calls, "setactive") =>
                  /\ target[t].plan # NoGuid
                  /\ \/ e.step = "scheme" /\ cfg.set_power_plan
                     \/ /\ e.step = "cpu" /\ cfg.set_cpu_policy
                        /\ wrote("PERFEPP") /\ wrote("PROCTHROTTLEMIN")
                        /\ wrote("PROCTHROTTLEMAX")
             /\ os'.active # os.active => HasCall(e.calls, "setactive")
             /\ (~cfg.set_power_plan /\ ~cfg.set_cpu_policy)
                  => os'.active = os.active ]_vars

\* With the scheme toggle off, the scheme step was skipped and the CPU-policy
\* step re-activated the target scheme.
C8_Witness ==
  \E t \in Threads :
    /\ ~cfg.set_power_plan
    /\ Len(log[t]) >= 2
    /\ log[t][1].step = "scheme" /\ log[t][1].res = "off"
    /\ HasCall(log[t][2].calls, "setactive")
    /\ os.active = target[t].plan

StepOrder == <<"scheme", "cpu", "hz">>

\* The steps logged so far are scheme, cpu, hz in that order, and each
\* issued only its own kind of OS call.
OrderOk ==
  \A t \in Threads :
    /\ Len(log[t]) <= 3
    /\ \A i \in DOMAIN log[t] :
         /\ log[t][i].step = StepOrder[i]
         /\ CASE i = 1 -> OnlyCalls(log[t][i].calls, {"setactive"})
              [] i = 2 -> OnlyCalls(log[t][i].calls, {"setvalue", "setactive"})
              [] OTHER -> OnlyCalls(log[t][i].calls, {"sethz"})

\* C9: _apply_targets runs scheme activation, CPU-policy write, display
\* frequency in that order; CPU values are written only when the CPU-policy
\* toggle is on and a target guid is configured (and then the write is
\* attempted); set_hz is called exactly when a target Hz is configured,
\* whatever the toggles and the guid.
C9_OrderAndConditions ==
  [][ /\ OrderOk'
      /\ \A t \in Threads :
           Stepped(t) =>
             LET e == NewStep(t)
             IN /\ e.step = "cpu" =>
                     /\ (e.res # "off") <=>
                          (cfg.set_cpu_policy /\ target[t].plan # NoGuid)
                     /\ HasCall(e.calls, "setvalue") <=> (e.res # "off")
                /\ e.step = "hz" => ((e.res # "off") <=> target[t].hz # NoHz)
                /\ e.step = "scheme" => ~HasCall(e.calls, "setvalue") ]_vars

\* An apply with no guid configured and the scheme toggle off has skipped
\* both scheme steps and asked the OS for its target rate.
C9_Witness ==
  \E t \in Threads :
    /\ pc[t] = "exit"
    /\ target[t].plan = NoGuid
    /\ ~cfg.set_power_plan
    /\ Len(log[t]) = 3
    /\ log[t][1].res = "off" /\ log[t][2].res = "off"
    /\ log[t][3].res = "ok" /\ HasCall(log[t][3].calls, "sethz")

\* C10: a failed scheme activation is followed by the CPU-policy step, which
\* attempts its writes when its toggle is on; a failure of either is followed
\* by the display step, which calls set_hz when a target Hz is configured.
C10_StepsIndependent ==
  [][ \A t \in Threads :
        /\ (pc[t] = "scheme" /\ Stepped(t) /\ NewStep(t).res = "fail")
             => pc'[t] = "cpu"
        /\ (pc[t] = "cpu" /\ Stepped(t) /\ log[t][1].res = "fail"
              /\ cfg.set_cpu_policy)
             => (NewStep(t).step = "cpu" /\ HasCall(NewStep(t).calls, "setvalue"))
        /\ (pc[t] = "cpu" /\ Stepped(t) /\ NewStep(t).res = "fail")
             => pc'[t] = "hz"
        /\ (pc[t] = "hz" /\ Stepped(t) /\ target[t].hz # NoHz)
             => (Len(log'[t]) = 3 /\ NewStep(t).res # "off")
        /\ (pc'[t] = "exit" /\ pc[t] # "exit") => Len(log'[t]) = 3 ]_vars

\* Scheme activation failed, the CPU-policy write failed, and set_hz was
\* still called.
C10_Witness ==
  \E t \in Threads :
    /\ pc[t] = "exit"
    /\ Len(log[t]) = 3
    /\ log[t][1].res = "fail"
    /\ log[t][2].res = "fail" /\ HasCall(log[t][2].calls, "setvalue")
    /\ log[t][3].res # "off"

\* The statement order of the writes in apply_cpu_policy_to_scheme.
WriteOrder ==
  <<"PERFEPP", "PERFBOOSTMODE", "PROCTHROTTLEMIN", "PROCTHROTTLEMAX",
    "CPMINCORES", "SYSTEMCOOLINGPOLICY">>

Mandatory == {"PERFEPP", "PROCTHROTTLEMIN", "PROCTHROTTLEMAX"}

\* Thread t has just run apply_cpu_policy_to_scheme on a plan.
CpuRan(t) == Stepped(t) /\ NewStep(t).step = "cpu" /\ NewStep(t).res # "off"

\* Call i of the step is the failed write of a mandatory field.
MandatoryFailed(cs, i) ==
  cs[i].op = "setvalue" /\ cs[i].setting \in Mandatory /\ ~cs[i].ok

\* The mandatory field st was written.
WroteOk(cs, st) == \E i \in DOMAIN cs : cs[i].setting = st /\ cs[i].ok

\* C11: the CPU-policy writes are made in the order energy preference, turbo
\* mode, min clock, max clock, core-parking floor, thermal policy (the i-th
\* write is the i-th field, each at most once); when the write of a mandatory
\* field fails it is the last OS call of the apply (no later field, no
\* re-activation), the apply returns failure, and the values of the later
\* fields and the active scheme are as they were.
C11_MandatoryAbort ==
  [][ \A t \in Threads :
        CpuRan(t) =>
          LET e == NewStep(t)
              cs == e.calls
          IN /\ Len(cs) <= 7
             /\ \A i \in DOMAIN cs :
                  IF i <= 6 THEN cs[i].op = "setvalue" /\ cs[i].setting = WriteOrder[i]
                  ELSE cs[i].op = "setactive"
             /\ \A i \in DOMAIN cs :
                  MandatoryFailed(cs, i) =>
                    /\ i = Len(cs)
                    /\ e.res = "fail"
                    /\ os'.active = os.active
                    /\ \A g \in OsSchemes, sl \in {"ac", "dc"}, j \in i..6 :
                         os'.vals[g][sl][WriteOrder[j]] = os.vals[g][sl][WriteOrder[j]] ]_vars

\* The min-clock write failed after the energy preference and the turbo mode
\* were written: the apply ended there.
C11_Witness ==
  /\ pc["ui"] = "exit" /\ op["ui"] = "tab"
  /\ log["ui"][1].res = "fail"
  /\ Len(log["ui"][1].calls) = 3
  /\ log["ui"][1].calls[1].ok /\ log["ui"][1].calls[2].ok
  /\ ~log["ui"][1].calls[3].ok

\* C12: a failed best-effort write (turbo mode, core-parking floor, thermal
\* policy) is made once and the next field is still written; whenever the
\* three mandatory fields were written the apply made all six writes, ended
\* with one re-activation of the scheme and returned success; and it returns
\* success in no other case.
C12_BestEffortIgnored ==
  [][ \A t \in Threads :
        CpuRan(t) =>
          LET e == NewStep(t)
              cs == e.calls
              all == \A st \in Mandatory : WroteOk(cs, st)
          IN /\ \A i \in DOMAIN cs :
                  (cs[i].op = "setvalue" /\ cs[i].setting \notin Mandatory /\ ~cs[i].ok)
                    => /\ Len(cs) > i
                       /\ \A j \in DOMAIN cs : cs[j].setting = cs[i].setting => j = i
             /\ all => /\ Len(cs) = 7
                        /\ cs[7].op = "setactive" /\ cs[7].guid = target'[t].plan
                        /\ e.res = "ok"
             /\ e.res = "ok" => all ]_vars

\* With the turbo, core-parking and thermal knobs all missing, the apply
\* wrote the three mandatory fields, re-activated the scheme and succeeded.
C12_Witness ==
  /\ pc["ui"] = "exit" /\ op["ui"] = "tab"
  /\ log["ui"][1].res = "ok"
  /\ Len(log["ui"][1].calls) = 7
  /\ \A i \in {2, 5, 6} : ~log["ui"][1].calls[i].ok
  /\ \A i \in {1, 3, 4} : log["ui"][1].calls[i].ok

Clamp(x, lo, hi) == IF x < lo THEN lo ELSE IF x > hi THEN hi ELSE x

\* The value the apply must write for a field of the requested policy.
ExpectedWrite(pol, st) ==
  CASE st = "PERFEPP" -> Clamp(pol.epp, 0, 100)
    [] st = "PERFBOOSTMODE" -> Clamp(pol.boost_mode, 0, 2)
    [] st = "PROCTHROTTLEMIN" ->
         IF Clamp(pol.cpu_min, 0, 100) > Clamp(pol.cpu_max, 1, 100)
         THEN Clamp(pol.cpu_max, 1, 100) ELSE Clamp(pol.cpu_min, 0, 100)
    [] st = "PROCTHROTTLEMAX" -> Clamp(pol.cpu_max, 1, 100)
    [] st = "CPMINCORES" -> Clamp(pol.core_parking_min, 0, 100)
    [] OTHER -> IF pol.cooling_policy = 1 THEN 1 ELSE 0

InRange(st, v) ==
  CASE st = "PERFBOOSTMODE" -> v \in 0..2
    [] st = "PROCTHROTTLEMAX" -> v \in 1..100
    [] st = "SYSTEMCOOLINGPOLICY" -> v \in 0..1
    [] OTHER -> v \in 0..100

\* C13: whatever integers the requested policy holds, every value the apply
\* writes is in its field's range, the min written is never above the max
\* written, the max written is the requested max clamped to 1..100 and the
\* min written is the requested min clamped to 0..100, lowered to the max
\* written when above it.
C13_ClampedWrites ==
  [][ \A t \in Threads :
        CpuRan(t) =>
          LET cs == NewStep(t).calls
              pol == IF IsAc(plugged'[t]) THEN cfg.cpu_ac ELSE cfg.cpu_bat
          IN /\ \A i \in DOMAIN cs :
                  cs[i].op = "setvalue" =>
                    /\ InRange(cs[i].setting, cs[i].value)
                    /\ cs[i].value = ExpectedWrite(pol, cs[i].setting)
             /\ \A i, j \in DOMAIN cs :
                  (cs[i].setting = "PROCTHROTTLEMIN" /\ cs[j].setting = "PROCTHROTTLEMAX")
                    => cs[i].value <= cs[j].value ]_vars

\* A policy asking min 80, max 50 was written as min 50, max 50.
C13_Witness ==
  /\ pc["ui"] = "exit" /\ op["ui"] = "tab"
  /\ plugged["ui"] = "True"
  /\ cfg.cpu_ac.cpu_min = 80 /\ cfg.cpu_ac.cpu_max = 50
  /\ Len(log["ui"][1].calls) = 7
  /\ log["ui"][1].calls[3].value = 50
  /\ log["ui"][1].calls[4].value = 50
  /\ os.vals[1]["ac"]["PROCTHROTTLEMIN"] = 50
  /\ os.vals[1]["ac"]["PROCTHROTTLEMAX"] = 50

\* Thread t has just run set_hz (a target rate is configured).
HzRan(t) == Stepped(t) /\ NewStep(t).step = "hz" /\ NewStep(t).res # "off"

\* What the step just made is what set_hz answers in the state it ran in.
HzStepIs(t, r) ==
  /\ NewStep(t).res = Res(r.ok)
  /\ NewStep(t).calls = r.calls
  /\ os' = r.os

\* C14: set_hz(hz) with hz the current display frequency returns success
\* with no OS mode-change call, the display left as it is, whether the
\* supported list is empty or not.
C14_SameHzNoCall ==
  [][ \A t \in Threads :
        (HzRan(t) /\ target[t].hz = os.hz) =>
          LET r == set_hz(os, target[t].hz)
          IN /\ HzStepIs(t, r)
             /\ r.ok /\ r.calls = <<>> /\ r.os = os ]_vars

\* An apply whose target is the current rate has ended without a mode
\* change, on a driver that enumerates the rate.
C14_Witness ==
  /\ pc["ui"] = "exit" /\ Len(log["ui"]) = 3
  /\ hw.enumOk
  /\ target["ui"].hz = os.hz
  /\ log["ui"][3].res = "ok" /\ log["ui"][3].calls = <<>>

\* C15: set_hz(hz) with hz different from the current frequency: when the
\* supported list is non-empty and lacks hz it fails, its message spells out
\* the supported list, no mode-change call is made and the display keeps its
\* frequency; when the supported list is empty, or holds hz, exactly one
\* mode-change call for hz is made.
C15_UnsupportedRejected ==
  [][ \A t \in Threads :
        (HzRan(t) /\ target[t].hz # os.hz) =>
          LET hz == target[t].hz
              r == set_hz(os, hz)
              supported == list_supported_hz_for_current_mode
          IN /\ HzStepIs(t, r)
             /\ (supported # <<>> /\ hz \notin SeqRange(supported))
                  => /\ ~r.ok /\ r.calls = <<>> /\ os'.hz = os.hz
                     /\ r.msg.text = "desteklenmiyor"
                     /\ r.msg.supported = supported
                     /\ SeqRange(r.msg.supported) = PanelHz
             /\ (supported = <<>> \/ hz \in SeqRange(supported))
                  => /\ Len(r.calls) = 1
                     /\ r.calls[1].op = "sethz" /\ r.calls[1].value = hz ]_vars

\* A rate the driver does not list was refused, the display unchanged.
C15_Witness ==
  /\ pc["ui"] = "exit" /\ Len(log["ui"]) = 3
  /\ hw.enumOk
  /\ target["ui"].hz = 165 /\ os.hz # 165
  /\ log["ui"][3].res = "fail" /\ log["ui"][3].calls = <<>>

\* Thread t has just run set_power_scheme_by_guid.
SchemeRan(t) == Stepped(t) /\ NewStep(t).step = "scheme" /\ NewStep(t).res # "off"

\* C16: set_power_scheme_by_guid(guid) returns success only if the active
\* scheme read back after the activation call is guid; when the call
\* reports success and the scheme read back is another one, or none, it
\* returns the verification failure; and it makes one activation call at
\* most, never a second attempt.
C16_ActivationVerified ==
  [][ \A t \in Threads :
        SchemeRan(t) =>
          LET guid == target[t].plan
              r == set_power_scheme_by_guid(os, guid)
          IN /\ NewStep(t).res = Res(r.ok) /\ NewStep(t).calls = r.calls
             /\ os' = r.os
             /\ r.ok => get_active_power_scheme(os') = guid
             /\ Len(r.calls) <= 1
             /\ (r.calls # <<>> /\ r.calls[1].ok
                   /\ get_active_power_scheme(os') # guid)
                  => ~r.ok /\ r.msg = "dogrulanamadi"
             /\ r.msg = "dogrulanamadi" => r.calls # <<>> /\ r.calls[1].ok ]_vars

\* With no scheme active, the activation of an OEM-locked scheme was
\* accepted by powercfg and changed nothing: the step failed after one call.
C16_Witness ==
  /\ pc["ui"] = "exit"
  /\ log["ui"][1].step = "scheme" /\ log["ui"][1].res = "fail"
  /\ Len(log["ui"][1].calls) = 1 /\ log["ui"][1].calls[1].ok
  /\ target["ui"].plan \in hw.locked
  /\ os.active = NoGuid

\* The slider handler of that tab has stored a value and not yet re-clamped
\* cpu_min, which the stored value has left above cpu_max.
PartialEdit(mode) ==
  /\ pc["ui"] = ClampPc(mode)
  /\ cfg[PolicyKey(mode)].cpu_min > cfg[PolicyKey(mode)].cpu_max

\* C17: no apply reads a policy of which a slider edit has stored the new
\* value and not yet re-clamped cpu_min.
C17_NoPartialRead ==
  [][ \A t \in Threads : CpuRan(t) => ~PartialEdit(plugged[t]) ]_vars

\* The UI thread is not inside a handler that has yet to save.
Settled == pc["ui"] \notin {"clamp_ac", "clamp_bat"}

C19_MinNotAboveMax ==
  /\ cfg.cpu_ac.cpu_min <= cfg.cpu_ac.cpu_max
  /\ cfg.cpu_bat.cpu_min <= cfg.cpu_bat.cpu_max

\* C20: whatever the document, the second save_config(load_config()) writes
\* the document the first one wrote, and a load made after a save returns
\* the configuration that was saved.
C20_RoundTripStable ==
  /\ \A i \in DOMAIN log["ui"] : log["ui"][i] = log["ui"][1]
  /\ (pc["ui"] = "load" /\ log["ui"] # <<>>) => load_config(disk) = cfg

\* C21: loading never fails and nothing done later with the loaded
\* configuration ends the process: with no readable document load_config
\* gives the default AppConfig, and the process never dies of an exception,
\* neither while HzApp.__init__ goes on nor afterwards.
C21_LoadNeverFatal ==
  /\ (pc["ui"] = "boot_plans" /\ ~disk.json) => cfg = AppConfig
  /\ pc["ui"] # "crashed"

\* The supported-frequency list the application holds after line 519.
SupportedAtStartup ==
  IF hw.enumOk THEN PanelHz ELSE {60, 75, 120, 144, 165, 240}

\* C22: load_config hands the document's target rates on unchanged (none
\* when the document or the entry is missing); the defaulting step then
\* turns a missing AC target into the current display frequency (into the
\* highest supported rate when that cannot be read), a missing battery
\* target into the lowest rate of the supported list, and leaves a target
\* that is present as it is.
C22_StartupHzDefaults ==
  [][ /\ pc'["ui"] = "boot_plans" =>
           /\ cfg'.ac_hz = (IF disk.json THEN disk.ac_hz ELSE NoHz)
           /\ cfg'.battery_hz = (IF disk.json THEN disk.battery_hz ELSE NoHz)
      /\ (pc["ui"] = "boot_hz" /\ pc'["ui"] # "boot_hz") =>
           /\ (cfg.ac_hz = NoHz /\ os.hz # NoHz) => cfg'.ac_hz = os.hz
           /\ (cfg.ac_hz = NoHz /\ os.hz = NoHz) =>
                (cfg'.ac_hz \in SupportedAtStartup
                   /\ \A y \in SupportedAtStartup : y <= cfg'.ac_hz)
           /\ cfg.battery_hz = NoHz =>
                (cfg'.battery_hz \in SupportedAtStartup
                   /\ \A y \in SupportedAtStartup : cfg'.battery_hz <= y)
           /\ cfg.ac_hz # NoHz => cfg'.ac_hz = cfg.ac_hz
           /\ cfg.battery_hz # NoHz => cfg'.battery_hz = cfg.battery_hz ]_vars

\* Started with no target rate stored, at 144 Hz on a panel with 60 and
\* 144 Hz: the AC target is 144, the battery target 60, and both are saved.
C22_Witness ==
  /\ pc["ui"] = "boot_build"
  /\ hw.enumOk /\ os.hz = 144
  /\ cfg.ac_hz = 144 /\ cfg.battery_hz = 60
  /\ disk.json /\ disk.ac_hz = 144 /\ disk.battery_hz = 60

\* The messages the two functions keep for an empty guid.
InvalidArgument == {"GUID bos", "Plan GUID secili degil"}

\* C23: set_power_scheme_by_guid and apply_cpu_policy_to_scheme called with
\* an empty guid fail with the empty-guid message, run powercfg not once and
\* leave the OS as it was; that message is returned for an empty guid only.
C23_EmptyGuidRejected ==
  [][ (pc["ui"] = "idle" /\ op'["ui"] = "call") =>
        LET e == log'["ui"][1]
        IN /\ target'["ui"].plan = NoGuid =>
                /\ e.res = "fail"
                /\ e.msg \in InvalidArgument
                /\ e.calls = <<>>
                /\ os' = os
           /\ target'["ui"].plan # NoGuid =>
                (e.msg \notin InvalidArgument /\ e.calls # <<>>) ]_vars

\* set_power_scheme_by_guid has been called with an empty guid on a machine
\* whose active scheme is 2, and has refused.
C23_Witness ==
  /\ op["ui"] = "call" /\ pc["ui"] = "exit"
  /\ target["ui"].plan = NoGuid
  /\ log["ui"][1].step = "scheme"
  /\ log["ui"][1].msg = "GUID bos"
  /\ log["ui"][1].calls = <<>>
  /\ os.active = NumSchemes

\* The frequencies in 20..500 of the enumerated modes that have the current
\* width and height, and (strict) the current colour depth.
Matching(strict) ==
  { hw.modes[i].f : i \in { j \in DOMAIN hw.modes :
      /\ hw.modes[j].f \in 20..500
      /\ hw.modes[j].w = hw.cur.w /\ hw.modes[j].h = hw.cur.h
      /\ strict => hw.modes[j].bpp = hw.cur.bpp } }

\* C24: the list returned is strictly ascending (so without duplicates) and
\* holds exactly the matching frequencies of the current resolution and
\* colour depth, or, only when there is none, those of the current
\* resolution alone; nothing when the display cannot be read.
C24_SupportedHzList ==
  (op["ui"] = "enum" /\ pc["ui"] = "exit") =>
    LET out == log["ui"][1].out
    IN /\ \A i, j \in DOMAIN out : i < j => out[i] < out[j]
       /\ SeqRange(out) =
            (IF ~hw.enumOk THEN {}
             ELSE IF Matching(TRUE) # {} THEN Matching(TRUE)
             ELSE Matching(FALSE))

\* The table held 500 Hz twice at the current resolution and depth and
\* 20 Hz at the current resolution with another depth: the list is 500.
C24_Witness ==
  /\ op["ui"] = "enum" /\ pc["ui"] = "exit"
  /\ hw.modes = <<Mode(1920, 1080, 32, 500), Mode(1920, 1080, 16, 20),
                  Mode(1920, 1080, 32, 500)>>
  /\ log["ui"][1].out = <<500>>

\* C25: when the poll has recorded a state as last applied, the call of
\* apply_for_current_power_state made in that poll runs _apply_targets for
\* that very state, whatever the power source does between the poll's
\* reading and the call.  (A call turned away at the lock is left aside
\* here: that is C5.)
C25_AppliedStateIsRecorded ==
  [][ (pc["mon"] = "entry" /\ pc'["mon"] \notin {"entry", "ret_busy"}) =>
        /\ pc'["mon"] = "scheme"
        /\ plugged'["mon"] = last_plug_state ]_vars

\* The monitor's running apply holds a failed or aborted step.
MonFailed ==
  /\ InsideNow("mon")
  /\ \E i \in DOMAIN log["mon"] : log["mon"][i].res \in {"fail", "raise"}

\* C26: whatever step of the monitor's apply failed or raised, the monitor
\* polls again.
C26_MonitorSurvives == MonFailed ~> (pc["mon"] = "poll")

\* In one apply of the monitor the scheme activation was not verified, a
\* mandatory CPU field could not be written and _apply_targets raised.
C26_Witness ==
  /\ InsideNow("mon") /\ pc["mon"] = "exit"
  /\ log["mon"][1].res = "fail"
  /\ log["mon"][2].res = "fail"
  /\ log["mon"][3].res = "raise"

\* C28: the lock is held exactly while a thread is inside the try block of
\* apply_for_current_power_state, and a request is turned away at the lock
\* only while the other thread is inside it.
C28_LockFollowsApply ==
  [][ /\ apply_lock' <=> (\E t \in Threads : InsideNow(t)')
      /\ \A t \in Threads :
           (pc[t] # "ret_busy" /\ pc'[t] = "ret_busy") => InsideNow(Other(t)) ]_vars

\* The monitor recorded OnLine and an apply for OnLine has run to its
\* display step, where it raised (the AC target rate is a word); no apply
\* runs now and the lock is free.
C28_Witness ==
  /\ cfg.ac_hz = BadHz
  /\ last_plug_state = "True" /\ pending = "None"
  /\ \A t \in Threads : ~Inside(t)
  /\ ~apply_lock

\* C27: a run of apply_cpu_policy_to_scheme for a power source changes no
\* stored value but those of the target scheme's value set of that source
\* (AC when plugged, DC when not), and every write it issues names that
\* scheme and that value set.
C27_OnlyOwnValueSet ==
  [][ \A t \in Threads :
        CpuRan(t) =>
          LET own == Slot(IsAc(plugged'[t]))
              plan == target'[t].plan
              cs == NewStep(t).calls
          IN /\ \A g \in OsSchemes, sl \in {"ac", "dc"}, st \in Settings :
                  os'.vals[g][sl][st] # os.vals[g][sl][st]
                    => (g = plan /\ sl = own)
             /\ \A i \in DOMAIN cs :
                  cs[i].op = "setvalue" => (cs[i].guid = plan /\ cs[i].slot = own) ]_vars

\* The battery policy has been written to scheme 2: its DC values are the
\* policy's, its AC values and every value of scheme 1 are the factory ones.
C27_Witness ==
  /\ pc["ui"] = "exit" /\ op["ui"] = "tab" /\ plugged["ui"] = "False"
  /\ os.vals[NumSchemes]["dc"]["PERFEPP"] = default_cpu_bat.epp
  /\ os.vals[NumSchemes]["dc"]["PROCTHROTTLEMAX"] = default_cpu_bat.cpu_max
  /\ os.vals[NumSchemes]["ac"] = OsFactoryValues
  /\ os.vals[1] = [sl \in {"ac", "dc"} |-> OsFactoryValues]

\* C29: manual_apply turns auto mode off in memory and in the document
\* before anything is applied; and while auto mode is off (here: since a
\* manual apply) the monitor starts no apply and leaves the last-applied
\* state as it is.
C29_ManualSuspendsMonitor ==
  [][ /\ (op["ui"] # "manual" /\ op'["ui"] = "manual") =>
           /\ ~cfg'.auto_mode
           /\ disk'.auto_mode = JBool(FALSE)
           /\ os' = os
      /\ ~cfg.auto_mode =>
           /\ ~(pc["mon"] = "entry" /\ pc'["mon"] = "scheme")
           /\ last_plug_state' = last_plug_state ]_vars

\* C30: with auto mode on, a poll calls the apply iff the reading differs
\* from the last-applied state it holds; and whenever such a poll finds
\* nothing to do (no handler running), the OS settings are those a whole
\* apply of the current power state's profile leaves.
C30_ReenabledAutoConverges ==
  [][ /\ (pc["mon"] = "poll" /\ pc'["mon"] # "poll" /\ cfg.auto_mode) =>
           ((pc'["mon"] = "entry") <=> (power # last_plug_state))
      /\ (pc["mon"] = "poll" /\ pc'["mon"] = "sleep" /\ cfg.auto_mode
            /\ pc["ui"] = "idle") =>
           apply_targets(os, cfg, power) = os ]_vars

====
